---- MODULE Spec2Model ----
(***************************************************************************)
(* Model of src/python/render/autodiff.py: the gradient optimizers         *)
(* (Optimizer, DummyOptimizer, SGD, Adam), the scene-graph walk            *)
(* get_differentiable_parameters, and render / render_torch.               *)
(*                                                                         *)
(* Numbers are exact rationals <<numerator, denominator>>.  An array is a  *)
(* record [len, val]: `len` entries that all hold `val`; the empty array   *)
(* (no gradient data) has len 0.                                           *)
(***************************************************************************)
EXTENDS Integers, Sequences, FiniteSets, TLC

\* ------------------------------------------------------------- bounds
MaxSteps == 2      \* step() calls of SGD / Adam in one behaviour
MaxAcc == 3        \* largest value of gradients_acc_count
MaxNest == 2       \* nesting depth of no_gradients() blocks
MaxLen == 2        \* largest parameter length
NumNodes == 3      \* nodes of a scene graph

\* ------------------------------------------------------------- numbers
Abs(x) == IF x < 0 THEN -x ELSE x

RECURSIVE GCD(_, _)
GCD(a, b) == IF b = 0 THEN a ELSE GCD(b, a % b)

Rat(n, d) == LET g == GCD(Abs(n), d) IN <<n \div g, d \div g>>

Zero == <<0, 1>>
One == <<1, 1>>
Half == <<1, 2>>

RAdd(x, y) == Rat(x[1] * y[2] + y[1] * x[2], x[2] * y[2])
RSub(x, y) == Rat(x[1] * y[2] - y[1] * x[2], x[2] * y[2])
RMul(x, y) == Rat(x[1] * y[1], x[2] * y[2])
RDiv(x, y) == IF y[1] > 0 THEN Rat(x[1] * y[2], x[2] * y[1])
                          ELSE Rat(-(x[1] * y[2]), x[2] * (-y[1]))

RECURSIVE SqrtSearch(_, _, _)
SqrtSearch(n, lo, hi) ==
    IF lo >= hi THEN lo
    ELSE LET mid == (lo + hi + 1) \div 2
         IN IF mid * mid <= n THEN SqrtSearch(n, mid, hi)
                              ELSE SqrtSearch(n, lo, mid - 1)

\* sqrt and sqr of the numeric runtime; sqrt rounds down to a multiple of
\* 1/(4d), as a floating-point square root rounds to its precision
sqrt(x) == Rat(SqrtSearch(x[1] * x[2] * 16, 0, x[1] * x[2] * 4 + 1), x[2] * 4)
sqr(x) == RMul(x, x)

\* ------------------------------------------------------------- arrays
Max(a, b) == IF a >= b THEN a ELSE b

Arr(l, v) == [len |-> l, val |-> v]
Empty == Arr(0, Zero)
zero(size) == Arr(size, Zero)
slices(a) == a.len
compute_size(a) == a.len

AAdd(a, b) == Arr(Max(a.len, b.len), RAdd(a.val, b.val))
ASub(a, b) == Arr(Max(a.len, b.len), RSub(a.val, b.val))
ADiv(a, b) == Arr(Max(a.len, b.len), RDiv(a.val, b.val))
AScale(c, a) == Arr(a.len, RMul(c, a.val))
AShift(a, c) == Arr(a.len, RAdd(a.val, c))
ASqr(a) == Arr(a.len, sqr(a.val))
ASqrt(a) == Arr(a.len, sqrt(a.val))

\* ------------------------------------------------------------- inputs
Keys == {"albedo", "eta"}
Lens == 1..MaxLen
GradVals == {One, <<-2, 1>>}
LRs == {One, Half}
Momenta == {Zero, Half}
Betas == {Zero, Half}
epsilon == <<1, 4>>

VARIABLES
    kind, lr, momentum, beta_1, beta_2,    \* which optimizer, and its settings
    params,                                \* the ParameterSet
    gradients_acc, gradients_acc_count,    \* Optimizer.gradients_acc(_count)
    state,                                 \* Optimizer.state
    beta_1_t, beta_2_t,                    \* Adam's running products
    nsteps,                                \* step() calls of SGD / Adam so far
    nest,                                  \* per open no_gradients() block, the flags on its entry
    snaps,                                 \* gradient snapshots of the (up to two) accumulate calls since the last compute
    accSince,                              \* accumulate calls since the last compute
    lastOp,                                \* the operation that ran last, and about it:
    returned,                              \*   what its compute_gradients() returned
    round,                                 \*   snaps and accSince as its compute_gradients() found them
    left,                                  \*   the entry flags of the no_gradients() block it left
    used                                   \*   per key, what its update saw of the state

optVars == <<kind, lr, momentum, beta_1, beta_2, params, gradients_acc,
             gradients_acc_count, state, beta_1_t, beta_2_t, nsteps, nest,
             snaps, accSince, lastOp, returned, round, left, used>>

VARIABLES
    childrenOf,      \* the scene graph: per node, whether it has children() and what it returns
    ident,           \* per node, whether it has id() and what it returns
    stack,           \* the active traverse(path, n) calls, innermost last
    children,        \* the set `children` of nodes already walked
    prefix,          \* the prefix params.set_prefix() set last
    visits,          \* per node, how often its body (lines 201-216) ran
    puts,            \* per node, how often its put_parameters() ran
    registered       \* <<node, prefix>> of every put_parameters() call, in order

travVars == <<childrenOf, ident, stack, children, prefix, visits, puts, registered>>

VARIABLES
    helper,          \* globals()['render_torch_helper']: the cached closure and what it captured
    rcall,           \* the arguments of the call in progress
    rpc,             \* where the call in progress stands
    rscene,          \* the scene render() was called with
    work,            \* calls into the renderer made by the render() in progress
    pstore,          \* per params object, the tensor stored under the key
    wrote,           \* the params object the forward pass wrote into
    rendered         \* the scene the last render_path() rendered

renderVars == <<helper, rcall, rpc, rscene, work, pstore, wrote, rendered>>

vars == <<optVars, travVars, renderVars>>

\* ------------------------------------------------------------- ParameterSet
\* A parameter: its array, the gradient-tracking flag, whether it hangs on a
\* computation graph, and the gradient the last backward pass left on it.
Param(a, r) == [val |-> a, req |-> r, att |-> FALSE, grad |-> Empty]

detach(p) == p.val
gradient(p) == p.grad
set_requires_gradient(p, b) == [p EXCEPT !.req = b]

\* params[k] = a : the value is written into the array the key refers to, so
\* the reference p obtained from items() sees it; a freshly computed array
\* is not tracked and carries no graph and no gradient.
SetItem(p, a) == Param(a, FALSE)

EmptyMap == [k \in {} |-> Empty]

\* ------------------------------------------------------------- Optimizer
\* accumulate_gradients(): the new gradients_acc
accumulate_gradients(acc, ps) ==
    LET have == {k \in DOMAIN ps : slices(gradient(ps[k])) > 0}
    IN [k \in (DOMAIN acc) \cup have |->
          IF k \notin have THEN acc[k]
          ELSE AAdd(IF k \in DOMAIN acc THEN acc[k]
                                        ELSE zero(gradient(ps[k]).len),
                    gradient(ps[k]))]

\* compute_gradients(): what it returns, and the accumulator it leaves
compute_gradients(acc, count, ps) ==
    IF DOMAIN acc # {}
    THEN [gg |-> [k \in DOMAIN acc |-> AScale(RDiv(One, <<count, 1>>), acc[k])],
          acc |-> EmptyMap, count |-> 0]
    ELSE [gg |-> [k \in DOMAIN ps |-> gradient(ps[k])], acc |-> acc, count |-> count]

\* what an update saw: the state's and the parameter's length when the
\* update is applied, whether they differed on entry, whether the state was zero
Saw(p, st0, st1) ==
    [state |-> compute_size(st1), param |-> compute_size(p.val),
     mismatch |-> compute_size(p.val) # compute_size(st0),
     zeros |-> st1.val = Zero]

\* ------------------------------------------------------------- SGD
SGDReset(p) == zero(compute_size(p.val))

\* SGD.step without the length check
SGDKeyNoReset(k, p, st, gradients) ==
    IF k \notin DOMAIN gradients
    THEN [param |-> p, state |-> st, used |-> Saw(p, st, st)]
    ELSE LET g_p == gradients[k]
         IN IF momentum = Zero
            THEN [param |-> set_requires_gradient(
                               SetItem(p, ASub(detach(p), AScale(lr, g_p))), TRUE),
                  state |-> st, used |-> Saw(p, st, st)]
            ELSE LET st2 == AAdd(AScale(momentum, st), AScale(lr, g_p))
                 IN [param |-> set_requires_gradient(
                                  SetItem(p, ASub(detach(p), st2)), TRUE),
                     state |-> st2, used |-> Saw(p, st, st)]

\* SGD.step without the momentum = 0 case
SGDKeyAlwaysMomentum(k, p, st, gradients) ==
    LET st1 == IF compute_size(p.val) # compute_size(st) THEN SGDReset(p) ELSE st
    IN IF k \notin DOMAIN gradients
       THEN [param |-> p, state |-> st1, used |-> Saw(p, st, st1)]
       ELSE LET g_p == gradients[k]
                st2 == AAdd(AScale(momentum, st1), AScale(lr, g_p))
            IN [param |-> set_requires_gradient(
                             SetItem(p, ASub(detach(p), st2)), TRUE),
                state |-> st2, used |-> Saw(p, st, st1)]

\* SGD.step, the body of its loop for key k
SGDKey(k, p, st, gradients) ==
    LET st1 == IF compute_size(p.val) # compute_size(st) THEN SGDReset(p) ELSE st
    IN IF k \notin DOMAIN gradients
       THEN [param |-> p, state |-> st1, used |-> Saw(p, st, st1)]
       ELSE LET g_p == gradients[k]
            IN IF momentum = Zero
               THEN [param |-> set_requires_gradient(
                                  SetItem(p, ASub(detach(p), AScale(lr, g_p))), TRUE),
                     state |-> st1, used |-> Saw(p, st, st1)]
               ELSE LET st2 == AAdd(AScale(momentum, st1), AScale(lr, g_p))
                    IN [param |-> set_requires_gradient(
                                     SetItem(p, ASub(detach(p), st2)), TRUE),
                        state |-> st2, used |-> Saw(p, st, st1)]

\* ------------------------------------------------------------- Adam
AdamReset(p) == <<zero(compute_size(p.val)), zero(compute_size(p.val))>>

\* Adam.step, the body of its loop for key k
AdamKey(k, p, st, gradients, lr_t) ==
    LET st1 == IF compute_size(p.val) # compute_size(st[1]) THEN AdamReset(p) ELSE st
        saw == [Saw(p, st[1], st1[1]) EXCEPT
                  !.zeros = st1[1].val = Zero /\ st1[2].val = Zero]
    IN IF k \notin DOMAIN gradients
       THEN [param |-> p, state |-> st1, used |-> saw]
       ELSE LET g_t == gradients[k]
                m_t == AAdd(AScale(beta_1, st1[1]), AScale(RSub(One, beta_1), g_t))
                v_t == AAdd(AScale(beta_2, st1[2]), AScale(RSub(One, beta_2), ASqr(g_t)))
            IN [param |-> set_requires_gradient(
                             SetItem(p, ASub(detach(p),
                                 ADiv(AScale(lr_t, m_t), AShift(ASqrt(v_t), epsilon)))),
                             TRUE),
                state |-> <<m_t, v_t>>, used |-> saw]

\* ------------------------------------------------------------- DummyOptimizer
\* DummyOptimizer.step without set_requires_gradient
DummyKeyNoTrack(p) == SetItem(p, detach(p))

\* DummyOptimizer.step, the body of its loop
DummyKey(p) == set_requires_gradient(SetItem(p, detach(p)), TRUE)

\* ------------------------------------------------------------- construction
NoRound == [n |-> 0, snaps |-> <<>>]

\* what an operation leaves about itself
Note(op, ret, rnd, lft, usd) ==
    /\ lastOp' = op
    /\ returned' = ret
    /\ round' = rnd
    /\ left' = lft
    /\ used' = usd

\* Optimizer.__init__ / SGD.__init__ / Adam.__init__ over the caller's
\* parameters with keys K
InitOptOver(K) ==
    /\ kind \in {"Dummy", "SGD", "Adam"}
    /\ lr \in (IF kind = "Dummy" THEN {Zero} ELSE LRs)
    /\ momentum \in (IF kind = "SGD" THEN Momenta ELSE {Zero})
    /\ beta_1 \in (IF kind = "Adam" THEN Betas ELSE {Zero})
    /\ beta_2 \in (IF kind = "Adam" THEN Betas ELSE {Zero})
    /\ params = [k \in K |->
                   set_requires_gradient(
                       Param(Arr(IF k = "eta" THEN 1 ELSE MaxLen, One), FALSE), TRUE)]
    /\ gradients_acc = EmptyMap
    /\ gradients_acc_count = 0
    /\ state = [k \in K |->
                  CASE kind = "SGD" -> SGDReset(params[k])
                    [] kind = "Adam" -> AdamReset(params[k])
                    [] OTHER -> Empty]
    /\ beta_1_t = One
    /\ beta_2_t = One
    /\ nsteps = 0
    /\ nest = <<>>
    /\ snaps = <<>>
    /\ accSince = 0
    /\ lastOp = "init"
    /\ returned = EmptyMap
    /\ round = NoRound
    /\ left = EmptyMap
    /\ used = EmptyMap

Settings == <<kind, lr, momentum, beta_1, beta_2>>

\* ------------------------------------------------------------- operations
\* A render followed by a backward pass of the autodiff runtime: every tracked
\* parameter joins the graph and receives a gradient of its own length, or no
\* gradient data when the output does not depend on it.
Backward ==
    /\ \E g \in [DOMAIN params -> GradVals \cup {Zero}] :
          params' = [k \in DOMAIN params |->
                       IF params[k].req
                       THEN [params[k] EXCEPT
                               !.att = TRUE,
                               !.grad = IF g[k] = Zero THEN Empty
                                        ELSE Arr(params[k].val.len, g[k])]
                       ELSE params[k]]
    /\ Note("backward", EmptyMap, NoRound, EmptyMap, EmptyMap)
    /\ UNCHANGED <<Settings, gradients_acc, gradients_acc_count, state, beta_1_t,
                   beta_2_t, nsteps, nest, snaps, accSince>>
    /\ UNCHANGED <<travVars, renderVars>>

Accumulate ==
    /\ gradients_acc_count < MaxAcc
    /\ gradients_acc' = accumulate_gradients(gradients_acc, params)
    /\ gradients_acc_count' = gradients_acc_count + 1
    /\ snaps' = IF accSince < 2
                THEN Append(snaps, [k \in DOMAIN params |-> gradient(params[k])])
                ELSE <<>>
    /\ accSince' = accSince + 1
    /\ Note("accumulate", EmptyMap, NoRound, EmptyMap, EmptyMap)
    /\ UNCHANGED <<Settings, params, state, beta_1_t, beta_2_t, nsteps, nest>>
    /\ UNCHANGED <<travVars, renderVars>>

Compute ==
    /\ LET r == compute_gradients(gradients_acc, gradients_acc_count, params)
       IN /\ gradients_acc' = r.acc
          /\ gradients_acc_count' = r.count
          /\ Note("compute", r.gg, [n |-> accSince, snaps |-> snaps], EmptyMap, EmptyMap)
    /\ snaps' = <<>>
    /\ accSince' = 0
    /\ UNCHANGED <<Settings, params, state, beta_1_t, beta_2_t, nsteps, nest>>
    /\ UNCHANGED <<travVars, renderVars>>

\* the arithmetic of an update needs gradient data for every key it updates
HasData(gg) == \A k \in DOMAIN gg : slices(gg[k]) > 0

DummyStep ==
    /\ kind = "Dummy"
    /\ params' = [k \in DOMAIN params |-> DummyKey(params[k])]
    /\ Note("step", EmptyMap, NoRound, EmptyMap, EmptyMap)
    /\ UNCHANGED <<Settings, gradients_acc, gradients_acc_count, state, beta_1_t,
                   beta_2_t, nsteps, nest, snaps, accSince>>
    /\ UNCHANGED <<travVars, renderVars>>

SGDStep ==
    /\ kind = "SGD"
    /\ nsteps < MaxSteps
    /\ LET r == compute_gradients(gradients_acc, gradients_acc_count, params)
           upd == [k \in DOMAIN params |-> SGDKey(k, params[k], state[k], r.gg)]
       IN /\ HasData(r.gg)
          /\ gradients_acc' = r.acc
          /\ gradients_acc_count' = r.count
          /\ params' = [k \in DOMAIN params |-> upd[k].param]
          /\ state' = [k \in DOMAIN params |-> upd[k].state]
          /\ Note("step", r.gg, [n |-> accSince, snaps |-> snaps], EmptyMap,
                  [k \in DOMAIN params |-> upd[k].used])
    /\ snaps' = <<>>
    /\ accSince' = 0
    /\ nsteps' = nsteps + 1
    /\ UNCHANGED <<Settings, beta_1_t, beta_2_t, nest>>
    /\ UNCHANGED <<travVars, renderVars>>

AdamStep ==
    /\ kind = "Adam"
    /\ nsteps < MaxSteps
    /\ LET b1 == RMul(beta_1_t, beta_1)
           b2 == RMul(beta_2_t, beta_2)
           lr_t == RDiv(RMul(lr, sqrt(RSub(One, b2))), RSub(One, b1))
           r == compute_gradients(gradients_acc, gradients_acc_count, params)
           upd == [k \in DOMAIN params |->
                     AdamKey(k, params[k], state[k], r.gg, lr_t)]
       IN /\ HasData(r.gg)
          /\ beta_1_t' = b1
          /\ beta_2_t' = b2
          /\ gradients_acc' = r.acc
          /\ gradients_acc_count' = r.count
          /\ params' = [k \in DOMAIN params |-> upd[k].param]
          /\ state' = [k \in DOMAIN params |-> upd[k].state]
          /\ Note("step", r.gg, [n |-> accSince, snaps |-> snaps], EmptyMap,
                  [k \in DOMAIN params |-> upd[k].used])
    /\ snaps' = <<>>
    /\ accSince' = 0
    /\ nsteps' = nsteps + 1
    /\ UNCHANGED <<Settings, nest>>
    /\ UNCHANGED <<travVars, renderVars>>

\* no_gradients(): entering the block (lines 62-65)
NoGradEnter ==
    /\ Len(nest) < MaxNest
    /\ params' = [k \in DOMAIN params |-> set_requires_gradient(params[k], FALSE)]
    /\ nest' = Append(nest, [k \in DOMAIN params |-> params[k].req])
    /\ Note("enter", EmptyMap, NoRound, EmptyMap, EmptyMap)
    /\ UNCHANGED <<Settings, gradients_acc, gradients_acc_count, state, beta_1_t,
                   beta_2_t, nsteps, snaps, accSince>>
    /\ UNCHANGED <<travVars, renderVars>>

\* no_gradients(): the finally clause, when the block returns and when it raises
NoGradExit ==
    /\ Len(nest) > 0
    /\ params' = [k \in DOMAIN params |-> set_requires_gradient(params[k], TRUE)]
    /\ nest' = SubSeq(nest, 1, Len(nest) - 1)
    /\ \E raised \in BOOLEAN :
          Note(IF raised THEN "exit_error" ELSE "exit", EmptyMap, NoRound,
               nest[Len(nest)], EmptyMap)
    /\ UNCHANGED <<Settings, gradients_acc, gradients_acc_count, state, beta_1_t,
                   beta_2_t, nsteps, snaps, accSince>>
    /\ UNCHANGED <<travVars, renderVars>>

\* The caller replaces a parameter by an array of another length and asks
\* for its gradient again.
Resize ==
    /\ \E k \in DOMAIN params, l \in Lens :
          /\ l # params[k].val.len
          /\ params' = [params EXCEPT ![k] =
                          set_requires_gradient(SetItem(params[k], Arr(l, One)), TRUE)]
    /\ Note("resize", EmptyMap, NoRound, EmptyMap, EmptyMap)
    /\ UNCHANGED <<Settings, gradients_acc, gradients_acc_count, state, beta_1_t,
                   beta_2_t, nsteps, nest, snaps, accSince>>
    /\ UNCHANGED <<travVars, renderVars>>

\* ------------------------------------------------------------- scene graph
Nodes == 1..NumNodes
Root == 1

TypeNames == <<"Scene", "Shape", "BSDF", "Texture", "Emitter">>

\* type(n).__name__
TypeName(n) == TypeNames[((n - 1) % Len(TypeNames)) + 1]

\* hasattr(n, 'put_parameters')
HasPut(n) == (n % 3) # 1

\* what n.id() may be: no such attribute, the empty string, an anonymous
\* identifier holding an address, a name (strings are sequences of characters)
IdChoices == << [has |-> FALSE, text |-> <<>>],
                [has |-> TRUE, text |-> <<>>],
                [has |-> TRUE, text |-> <<"_", "[", "0", "x", "7", "]">>],
                [has |-> TRUE, text |-> <<"w", "0">>] >>

\* sub in s, for strings
Contains(s, sub) ==
    \E i \in 0..(Len(s) - Len(sub)) :
        \A j \in 1..Len(sub) : s[i + j] = sub[j]

\* lines 201-206: the path of node n below `path`
ExtendPath(path, n) ==
    LET p1 == Append(path, TypeName(n))
        p2 == IF ident[n].has
                 /\ Len(ident[n].text) > 0
                 /\ ~Contains(ident[n].text, <<"[", "0", "x">>)
              THEN p1 \o <<"[id=\"">> \o ident[n].text \o <<"\"]">>
              ELSE p1
    IN Append(p2, "/")

\* the lists children() may return: up to two nodes, in rising order
RECURSIVE Rising(_)
Rising(S) ==
    IF S = {} THEN <<>>
    ELSE LET m == CHOOSE x \in S : \A y \in S : x <= y
         IN <<m>> \o Rising(S \ {m})

KidChoices ==
    {[has |-> FALSE, list |-> <<>>]} \cup
    {[has |-> TRUE, list |-> Rising(S)] :
        S \in {T \in SUBSET Nodes : Cardinality(T) <= 2}}

Frame(n, path) == [n |-> n, path |-> path, i |-> 1, pc |-> "enter"]

\* get_differentiable_parameters(scene), up to the call traverse('/', scene)
InitTraverse ==
    /\ childrenOf \in [Nodes -> KidChoices]
    /\ ident \in {[n \in Nodes |-> IdChoices[((n + s) % Len(IdChoices)) + 1]] :
                     s \in 1..Len(IdChoices)}
    /\ stack = <<Frame(Root, <<"/">>)>>
    /\ children = {}
    /\ prefix = <<>>
    /\ visits = [n \in Nodes |-> 0]
    /\ puts = [n \in Nodes |-> 0]
    /\ registered = <<>>

TravIdle ==
    /\ childrenOf = [n \in Nodes |-> [has |-> FALSE, list |-> <<>>]]
    /\ ident = [n \in Nodes |-> IdChoices[1]]
    /\ stack = <<>>
    /\ children = {}
    /\ prefix = <<>>
    /\ visits = [n \in Nodes |-> 0]
    /\ puts = [n \in Nodes |-> 0]
    /\ registered = <<>>

Top == stack[Len(stack)]
Pop == SubSeq(stack, 1, Len(stack) - 1)
SetTop(f) == [stack EXCEPT ![Len(stack)] = f]

\* traverse, lines 198-209, never adding n to `children`
TraverseEnterNoAdd ==
    /\ stack # <<>>
    /\ Top.pc = "enter"
    /\ IF Top.n \in children
       THEN /\ stack' = Pop
            /\ UNCHANGED <<children, prefix, visits>>
       ELSE LET path == ExtendPath(Top.path, Top.n)
            IN /\ prefix' = path
               /\ UNCHANGED children
               /\ visits' = [visits EXCEPT ![Top.n] = @ + 1]
               /\ stack' = SetTop([Top EXCEPT !.path = path, !.pc = "put"])
    /\ UNCHANGED <<childrenOf, ident, puts, registered>>
    /\ UNCHANGED <<optVars, renderVars>>

\* traverse, lines 198-209, extending the prefix set last instead of
\* setting the path
TraverseEnterSharedPrefix ==
    /\ stack # <<>>
    /\ Top.pc = "enter"
    /\ IF Top.n \in children
       THEN /\ stack' = Pop
            /\ UNCHANGED <<children, prefix, visits>>
       ELSE LET path == ExtendPath(Top.path, Top.n)
            IN /\ prefix' = ExtendPath(IF prefix = <<>> THEN <<"/">> ELSE prefix, Top.n)
               /\ children' = children \cup {Top.n}
               /\ visits' = [visits EXCEPT ![Top.n] = @ + 1]
               /\ stack' = SetTop([Top EXCEPT !.path = path, !.pc = "put"])
    /\ UNCHANGED <<childrenOf, ident, puts, registered>>
    /\ UNCHANGED <<optVars, renderVars>>

\* traverse, lines 198-209: return at once on a node already walked; else
\* extend the path, set the prefix, add the node to `children`
TraverseEnter ==
    /\ stack # <<>>
    /\ Top.pc = "enter"
    /\ IF Top.n \in children
       THEN /\ stack' = Pop
            /\ UNCHANGED <<children, prefix, visits>>
       ELSE LET path == ExtendPath(Top.path, Top.n)
            IN /\ prefix' = path
               /\ children' = children \cup {Top.n}
               /\ visits' = [visits EXCEPT ![Top.n] = @ + 1]
               /\ stack' = SetTop([Top EXCEPT !.path = path, !.pc = "put"])
    /\ UNCHANGED <<childrenOf, ident, puts, registered>>
    /\ UNCHANGED <<optVars, renderVars>>

\* traverse, lines 211-212: the node registers its parameters
TraversePut ==
    /\ stack # <<>>
    /\ Top.pc = "put"
    /\ IF HasPut(Top.n)
       THEN /\ puts' = [puts EXCEPT ![Top.n] = @ + 1]
            /\ registered' = Append(registered, <<Top.n, prefix>>)
       ELSE UNCHANGED <<puts, registered>>
    /\ stack' = SetTop([Top EXCEPT !.pc = "loop"])
    /\ UNCHANGED <<childrenOf, ident, children, prefix, visits>>
    /\ UNCHANGED <<optVars, renderVars>>

\* traverse, lines 214-216: the call for the next child
TraverseChild ==
    /\ stack # <<>>
    /\ Top.pc = "loop"
    /\ childrenOf[Top.n].has
    /\ Top.i <= Len(childrenOf[Top.n].list)
    /\ stack' = Append(SetTop([Top EXCEPT !.i = @ + 1]),
                       Frame(childrenOf[Top.n].list[Top.i], Top.path))
    /\ UNCHANGED <<childrenOf, ident, children, prefix, visits, puts, registered>>
    /\ UNCHANGED <<optVars, renderVars>>

\* traverse returns: no children(), or the loop is over
TraverseReturn ==
    /\ stack # <<>>
    /\ Top.pc = "loop"
    /\ ~(childrenOf[Top.n].has /\ Top.i <= Len(childrenOf[Top.n].list))
    /\ stack' = Pop
    /\ UNCHANGED <<childrenOf, ident, children, prefix, visits, puts, registered>>
    /\ UNCHANGED <<optVars, renderVars>>

\* ------------------------------------------------------------- render
Scenes == {"sceneA", "sceneB"}
ParamObjs == {"paramsA", "paramsB"}
Tensors == {"t1", "t2"}
Formats == {"y", "xyz", "rgb", "rgba"}
Spps == {[given |-> FALSE, n |-> 0], [given |-> TRUE, n |-> 4]}

NoHelper == [set |-> FALSE, scene |-> "", params |-> ""]
NoCall == [fn |-> "none", scene |-> "", params |-> "", spp |-> [given |-> FALSE, n |-> 0],
           pixel_format |-> "y", tensor |-> ""]

InitRender ==
    /\ helper = NoHelper
    /\ rcall = NoCall
    /\ rpc = "idle"
    /\ rscene = ""
    /\ work = <<>>
    /\ pstore = [o \in ParamObjs |-> "t0"]
    /\ wrote = ""
    /\ rendered = ""

Returned == rpc \in {"idle", "done", "failed"}

\* a call render(scene, spp, pixel_format)
RenderStart ==
    /\ Returned
    /\ \E sc \in Scenes, sp \in Spps, f \in Formats :
          /\ rcall' = [fn |-> "render", scene |-> sc, params |-> "", spp |-> sp,
                       pixel_format |-> f, tensor |-> ""]
          /\ rscene' = sc
    /\ rpc' = "check"
    /\ work' = <<>>
    /\ wrote' = ""
    /\ rendered' = ""
    /\ UNCHANGED <<helper, pstore>>
    /\ UNCHANGED <<optVars, travVars>>

\* a call render_torch(scene, params, **kwargs), lines 281-286 and 334-337:
\* the closure is built on the first call only, over that call's scene and
\* params, and kept in globals()
TorchStart ==
    /\ Returned
    /\ \E sc \in Scenes, po \in ParamObjs, sp \in Spps, f \in Formats, t \in Tensors :
          /\ rcall' = [fn |-> "render_torch", scene |-> sc, params |-> po, spp |-> sp,
                       pixel_format |-> f, tensor |-> t]
          /\ helper' = IF helper.set THEN helper
                       ELSE [set |-> TRUE, scene |-> sc, params |-> po]
    /\ rpc' = "forward"
    /\ work' = <<>>
    /\ wrote' = ""
    /\ rendered' = ""
    /\ UNCHANGED <<rscene, pstore>>
    /\ UNCHANGED <<optVars, travVars>>

\* Render.forward, lines 290-315: the tensor goes into the closure's params,
\* and render() is called on the closure's scene
TorchForward ==
    /\ rpc = "forward"
    /\ pstore' = [pstore EXCEPT ![helper.params] = rcall.tensor]
    /\ wrote' = helper.params
    /\ rscene' = helper.scene
    /\ rpc' = "check"
    /\ UNCHANGED <<helper, rcall, work, rendered>>
    /\ UNCHANGED <<optVars, travVars>>

\* render, with the check of lines 225-227 left to the conversion
RenderCheckLate ==
    /\ rpc = "check"
    /\ rpc' = "integrator"
    /\ UNCHANGED <<helper, rcall, rscene, work, pstore, wrote, rendered>>
    /\ UNCHANGED <<optVars, travVars>>

\* render, lines 225-227
RenderCheck ==
    /\ rpc = "check"
    /\ rpc' = IF rcall.pixel_format \notin {"y", "xyz", "rgb"} THEN "failed"
              ELSE "integrator"
    /\ UNCHANGED <<helper, rcall, rscene, work, pstore, wrote, rendered>>
    /\ UNCHANGED <<optVars, travVars>>

\* render, line 229
RenderIntegrator ==
    /\ rpc = "integrator"
    /\ work' = Append(work, "scene.integrator")
    /\ rpc' = "path"
    /\ UNCHANGED <<helper, rcall, rscene, pstore, wrote, rendered>>
    /\ UNCHANGED <<optVars, travVars>>

\* render_path, lines 237-276
RenderPath ==
    /\ rpc = "path"
    /\ work' = work
               \o <<"scene.sensor", "sensor.film", "sensor.sampler", "film.crop_size">>
               \o (IF rcall.spp.given THEN <<>> ELSE <<"sampler.sample_count">>)
               \o <<"sampler.next_1d_d", "sampler.next_2d_d",
                    "sensor.sample_ray_differential", "scene.integrator",
                    "integrator.eval", "ImageBlock", "block.clear_d", "block.put">>
    /\ rendered' = rscene
    /\ rpc' = "convert"
    /\ UNCHANGED <<helper, rcall, rscene, pstore, wrote>>
    /\ UNCHANGED <<optVars, travVars>>

\* render, lines 232-234
RenderConvert ==
    /\ rpc = "convert"
    /\ work' = Append(work, "image_to_float_d")
    /\ rpc' = IF rcall.fn = "render" THEN "done" ELSE "reshape"
    /\ UNCHANGED <<helper, rcall, rscene, pstore, wrote, rendered>>
    /\ UNCHANGED <<optVars, travVars>>

\* render_torch, lines 316-318 and 338-340
TorchReturn ==
    /\ rpc = "reshape"
    /\ work' = Append(work, "scene.film")
    /\ rpc' = "done"
    /\ UNCHANGED <<helper, rcall, rscene, pstore, wrote, rendered>>
    /\ UNCHANGED <<optVars, travVars>>

\* ------------------------------------------------------------- specifications
OptIdle == InitOptOver({}) /\ kind = "Dummy"

\* the Optimizer base class over two parameters
Init == InitOptOver(Keys) /\ TravIdle /\ InitRender

Next ==
    \/ Backward
    \/ Accumulate
    \/ Compute

Spec == Init /\ [][Next]_vars

\* SGD with gradient accumulation
InitSGD == InitOptOver({"albedo"}) /\ kind = "SGD" /\ TravIdle /\ InitRender

NextSGD ==
    \/ Backward
    \/ Accumulate
    \/ Compute
    \/ SGDStep

SpecSGD == InitSGD /\ [][NextSGD]_vars

\* the three optimizers and no_gradients() blocks
NextNoGrad ==
    \/ Backward
    \/ DummyStep
    \/ SGDStep
    \/ AdamStep
    \/ NoGradEnter
    \/ NoGradExit

SpecNoGrad == Init /\ [][NextNoGrad]_vars

\* SGD and Adam while the caller changes the parameter's length
InitResize == InitOptOver({"albedo"}) /\ kind # "Dummy" /\ TravIdle /\ InitRender

NextResize ==
    \/ Backward
    \/ Resize
    \/ SGDStep
    \/ AdamStep

SpecResize == InitResize /\ [][NextResize]_vars

\* get_differentiable_parameters; the walk is one synchronous call, so it
\* keeps running until it returns
InitWalk == OptIdle /\ InitTraverse /\ InitRender

NextTraverse ==
    \/ TraverseEnter
    \/ TraversePut
    \/ TraverseChild
    \/ TraverseReturn

SpecTraverse == InitWalk /\ [][NextTraverse]_vars /\ WF_vars(NextTraverse)

\* render and render_torch
InitCalls == OptIdle /\ TravIdle /\ InitRender

NextRender ==
    \/ RenderStart
    \/ TorchStart
    \/ TorchForward
    \/ RenderCheck
    \/ RenderIntegrator
    \/ RenderPath
    \/ RenderConvert
    \/ TorchReturn

SpecRender == InitCalls /\ [][NextRender]_vars

\* ------------------------------------------------------------- claims
HasGrad(snap, k) == slices(snap[k]) > 0

\* r = (a + b) / 2, on rationals, by cross-multiplication
IsMean(r, a, b) == r[1] * (2 * a[2] * b[2]) = r[2] * (a[1] * b[2] + b[1] * a[2])

\* C1: accumulate_gradients() twice and then compute_gradients() returns, for
\* every key that had gradient data at both calls, the arithmetic mean of the
\* two snapshots, and leaves the accumulator empty; a compute_gradients() with
\* no accumulate_gradients() since the last one returns the raw gradients.
C1_MeanOfTwoSnapshots ==
    /\ (lastOp = "compute" /\ round.n = 2) =>
          /\ \A k \in DOMAIN params :
                (HasGrad(round.snaps[1], k) /\ HasGrad(round.snaps[2], k)) =>
                   /\ k \in DOMAIN returned
                   /\ IsMean(returned[k].val, round.snaps[1][k].val,
                             round.snaps[2][k].val)
          /\ DOMAIN gradients_acc = {}
    /\ (lastOp = "compute" /\ round.n = 0) =>
          returned = [k \in DOMAIN params |-> gradient(params[k])]

\* C2: no_gradients() disables gradient tracking of every parameter on entry
\* and, when the block is left (by return or by an error), every parameter's
\* flag is what it was just before the block was entered.
C2_FlagsRestored ==
    /\ lastOp = "enter" => \A k \in DOMAIN params : ~params[k].req
    /\ lastOp \in {"exit", "exit_error"} =>
          \A k \in DOMAIN params : params[k].req = left[k]

StateLens(k) == IF kind = "SGD" THEN {compute_size(state[k])}
                ELSE {compute_size(state[k][1]), compute_size(state[k][2])}

IsDescent(new, old, g) ==
    new[1] * (old[2] * lr[2] * g[2])
        = new[2] * (old[1] * lr[2] * g[2] - lr[1] * g[1] * old[2])

\* C4: a step() of SGD with momentum = 0 sets every parameter that has a
\* gradient to param_old - lr * grad, grad being what compute_gradients()
\* returned, and changes the state buffer only by a length-mismatch reset.
C4_PlainGradientDescent ==
    [][(lastOp' = "step" /\ kind = "SGD" /\ momentum = Zero) =>
          \A k \in DOMAIN params :
             /\ k \in DOMAIN returned' =>
                   /\ params'[k].val.len = params[k].val.len
                   /\ IsDescent(params'[k].val.val, params[k].val.val,
                                returned'[k].val)
             /\ state'[k] = IF compute_size(state[k]) = compute_size(params[k].val)
                            THEN state[k]
                            ELSE zero(compute_size(params[k].val))]_vars

C4_Witness ==
    /\ lastOp = "step"
    /\ kind = "SGD"
    /\ momentum = Zero
    /\ nsteps >= 2
    /\ round.n >= 2
    /\ DOMAIN returned # {}

\* C5: get_differentiable_parameters never runs a node's body or its
\* put_parameters twice, and it returns, having run the body of every node
\* reachable from the scene once, however many parents a node has and
\* whether or not the graph has a cycle.
RECURSIVE Reach(_)
Reach(S) ==
    LET T == S \cup {c \in Nodes :
                       \E n \in S : /\ childrenOf[n].has
                                    /\ \E i \in 1..Len(childrenOf[n].list) :
                                          childrenOf[n].list[i] = c}
    IN IF T = S THEN S ELSE Reach(T)

WalkedOnce ==
    \A n \in Nodes :
        /\ visits[n] = IF n \in Reach({Root}) THEN 1 ELSE 0
        /\ puts[n] = IF n \in Reach({Root}) /\ HasPut(n) THEN 1 ELSE 0

C5_EachNodeOnce ==
    /\ [](\A n \in Nodes : visits[n] <= 1 /\ puts[n] <= 1)
    /\ <>(stack = <<>> /\ WalkedOnce)

Parents(c) ==
    {n \in Reach({Root}) :
        /\ childrenOf[n].has
        /\ \E i \in 1..Len(childrenOf[n].list) : childrenOf[n].list[i] = c}

\* the walk has returned from a graph with a node shared by two parents and
\* a cycle back to the scene
C5_Witness ==
    /\ stack = <<>>
    /\ \E c \in Nodes : HasPut(c) /\ puts[c] = 1 /\ Cardinality(Parents(c)) >= 2
    /\ Parents(Root) # {}

RECURSIVE PathOf(_)
PathOf(i) == IF i = 0 THEN <<"/">> ELSE ExtendPath(PathOf(i - 1), stack[i].n)

\* C10: whenever a node's put_parameters is invoked, the prefix of the
\* parameter set is that node's own path, from the scene down the calls that
\* lead to it.
C10_PrefixIsOwnPath ==
    (stack # <<>> /\ Top.pc = "put" /\ HasPut(Top.n)) => prefix = PathOf(Len(stack))

\* put_parameters of a second child, after the walk of the first child's
\* subtree has set the prefix to the first child's path and returned
C10_Witness ==
    /\ Len(stack) >= 2
    /\ Top.pc = "put"
    /\ HasPut(Top.n)
    /\ stack[Len(stack) - 1].i = 3
    /\ LET first == childrenOf[stack[Len(stack) - 1].n].list[1]
       IN /\ visits[first] = 1
          /\ HasPut(first)
          /\ \A m \in 1..Len(stack) : stack[m].n # first
          /\ registered[Len(registered)][1] = first

\* C6: a render() with a pixel_format other than 'y', 'xyz', 'rgb' fails
\* before it has called the sensor, sampler, film or integrator or made an
\* image block.
C6_InvalidFormatFailsFirst ==
    (rcall.fn # "none" /\ rcall.pixel_format \notin {"y", "xyz", "rgb"}
        /\ rpc \notin {"forward", "check"}) =>
        (rpc = "failed" /\ work = <<>> /\ rendered = "")

C6_Witness ==
    /\ rpc = "failed"
    /\ rcall.fn = "render"
    /\ rcall.pixel_format = "rgba"

\* C7: every render_torch(scene, params, ...) call writes the tensors into
\* the params it was given and renders the scene it was given.
C7_ForwardUsesCallArguments ==
    (rcall.fn = "render_torch" /\ rpc \in {"reshape", "done"}) =>
        (rendered = rcall.scene /\ wrote = rcall.params)

\* C8: a compute_gradients() that follows at least one accumulate_gradients()
\* leaves the running sums empty and the counter at 0.
C8_CounterCleared ==
    (lastOp = "compute" /\ round.n >= 1) =>
        (DOMAIN gradients_acc = {} /\ gradients_acc_count = 0)

\* C9: after step() every parameter it replaced is detached from the graph
\* and tracks gradients; DummyOptimizer leaves the values as they were.
C9_StepDetachesAndTracks ==
    [][lastOp' = "step" =>
          \A k \in DOMAIN params :
             (kind = "Dummy" \/ k \in DOMAIN returned') =>
                /\ ~params'[k].att
                /\ params'[k].req
                /\ kind = "Dummy" => params'[k].val = params[k].val]_vars

\* a step inside a no_gradients() block, on parameters a backward pass used
C9_Witness ==
    /\ lastOp = "step"
    /\ nest # <<>>
    /\ \A k \in DOMAIN params : params[k].req /\ ~params[k].att

====
